---- MODULE Spec2Model ----
(***************************************************************************)
(* Model of the looped MEF metric calculator, HRSIDT-Calc-Loop.ipynb:      *)
(* land mask, observational baseline, catalog discovery, and the loop that *)
(* normalises each model, computes the four MEF aggregations, appends the  *)
(* per-model dataset and finally concatenates and exports.                 *)
(*                                                                         *)
(* Array values are IEEE doubles in the notebook.  Here a value is a pair  *)
(* <<n, d>>: d > 0 is the reduced rational n/d, <<0, 0>> is not-a-number,  *)
(* <<1, 0>> and <<-1, 0>> are the two infinities.  Arithmetic is exact, so *)
(* rounding error is outside the model.                                    *)
(***************************************************************************)
EXTENDS Integers, Sequences, FiniteSets, TLC

\* ------------------------------------------------------------------ bounds
\* Number of cells of the reference grid (332 x 316 in the notebook's run).
NCells == 2
\* Number of years of the time window (36 in the notebook: 1978-12..2014-11).
NYears == 2
\* Number of entries of mods that are used (6 in the notebook).
NModels == 2

\* --------------------------------------------------------- value arithmetic
NaN == <<0, 0>>
PosInf == <<1, 0>>
NegInf == <<-1, 0>>
Zero == <<0, 1>>
One == <<1, 1>>

Abs(n) == IF n < 0 THEN -n ELSE n

Sign(n) == IF n < 0 THEN -1 ELSE IF n > 0 THEN 1 ELSE 0

RECURSIVE GCD(_, _)
GCD(a, b) == IF b = 0 THEN a ELSE GCD(b, a % b)

\* The reduced rational n/d, for d # 0.
Rat(n, d) ==
    LET g == GCD(Abs(n), Abs(d))
        s == Sign(d)
    IN <<(s * n) \div g, (s * d) \div g>>

IsNaN(v) == v = NaN

IsInf(v) == v[2] = 0 /\ v[1] # 0

IsFinite(v) == v[2] > 0

RNeg(v) == <<-v[1], v[2]>>

RAdd(a, b) ==
    IF IsNaN(a) \/ IsNaN(b) THEN NaN
    ELSE IF IsInf(a) THEN (IF IsInf(b) /\ b # a THEN NaN ELSE a)
    ELSE IF IsInf(b) THEN b
    ELSE Rat(a[1] * b[2] + b[1] * a[2], a[2] * b[2])

RSub(a, b) == RAdd(a, RNeg(b))

RMul(a, b) ==
    IF IsNaN(a) \/ IsNaN(b) THEN NaN
    ELSE IF IsInf(a) \/ IsInf(b)
         THEN (IF a[1] = 0 \/ b[1] = 0 THEN NaN ELSE <<Sign(a[1]) * Sign(b[1]), 0>>)
    ELSE Rat(a[1] * b[1], a[2] * b[2])

\* IEEE division: 0/0 and inf/inf are not-a-number, x/0 is an infinity.
RDiv(a, b) ==
    IF IsNaN(a) \/ IsNaN(b) THEN NaN
    ELSE IF IsInf(b) THEN (IF IsInf(a) THEN NaN ELSE Zero)
    ELSE IF b[1] = 0 THEN (IF a[1] = 0 THEN NaN ELSE <<Sign(a[1]), 0>>)
    ELSE IF IsInf(a) THEN <<Sign(a[1]) * Sign(b[1]), 0>>
    ELSE Rat(a[1] * b[2], a[2] * b[1])

RSquare(a) == RMul(a, a)

\* Comparisons are false when an operand is not-a-number.
RLe(a, b) ==
    /\ ~IsNaN(a)
    /\ ~IsNaN(b)
    /\ IF IsInf(a) THEN (a = NegInf \/ b = PosInf)
       ELSE IF IsInf(b) THEN b = PosInf
       ELSE a[1] * b[2] <= b[1] * a[2]

RGt(a, b) == ~IsNaN(a) /\ ~IsNaN(b) /\ ~RLe(a, b)

\* Mutant of SumSkipNa: a not-a-number term makes the sum not-a-number.
RECURSIVE SumPropagatingNa(_, _)
SumPropagatingNa(S, f) ==
    IF S = {} THEN Zero
    ELSE LET i == CHOOSE x \in S : TRUE
         IN RAdd(f[i], SumPropagatingNa(S \ {i}, f))

\* Sum of f over the index set S, not-a-number terms skipped (xarray's
\* sum with skipna; an empty or all-NaN sum is 0).
RECURSIVE SumSkipNa(_, _)
SumSkipNa(S, f) ==
    IF S = {} THEN Zero
    ELSE LET i == CHOOSE x \in S : TRUE
             rest == SumSkipNa(S \ {i}, f)
         IN IF IsNaN(f[i]) THEN rest ELSE RAdd(f[i], rest)

\* Number of indices of S at which f is a number (xarray's count).
CountValid(S, f) == Cardinality({i \in S : ~IsNaN(f[i])})

\* Mean of f over S, not-a-number terms skipped; all-NaN gives NaN.
MeanSkipNa(S, f) == RDiv(SumSkipNa(S, f), <<CountValid(S, f), 1>>)

\* ------------------------------------------------------------- time axis
\* A time label is a month number, 12 * year + (month - 1).
Label(year, month) == 12 * year + (month - 1)

MonthOf(label) == (label % 12) + 1

\* xarray's time.season: DJF, MAM, JJA, SON.
SeasonOf(label) ==
    LET m == MonthOf(label)
    IN IF m \in {12, 1, 2} THEN "DJF"
       ELSE IF m \in {3, 4, 5} THEN "MAM"
       ELSE IF m \in {6, 7, 8} THEN "JJA"
       ELSE "SON"

Months == 1..12

Seasons == {"DJF", "MAM", "JJA", "SON"}

\* slice('1978-12', '2014-11'): the window starts in December of StartYear
\* and ends in November, NYears later.
StartYear == 1978
StartMonth == 12
EndMonth == 11
WinStart == Label(StartYear, StartMonth)
WinEnd == Label(StartYear + NYears, EndMonth)

\* Number of months of the window (432 in the notebook).
NT == WinEnd - WinStart + 1

Cells == 1..NCells

RECURSIVE SortedSeq(_)
SortedSeq(S) ==
    IF S = {} THEN <<>>
    ELSE LET m == CHOOSE x \in S : \A y \in S : x <= y
         IN <<m>> \o SortedSeq(S \ {m})

\* A gridded time series is [time |-> labels, v |-> [cell |-> values]],
\* both sequences indexed by position along the time dimension.
\* ds.sel(time=slice(lo, hi)): the positions whose label lies in lo..hi.
SelTime(ds, lo, hi) ==
    LET ix == SortedSeq({t \in 1..Len(ds.time) : lo <= ds.time[t] /\ ds.time[t] <= hi})
    IN [time |-> [i \in 1..Len(ix) |-> ds.time[ix[i]]],
        v |-> [c \in DOMAIN ds.v |-> [i \in 1..Len(ix) |-> ds.v[c][ix[i]]]]]

\* ------------------------------------------------------- land mask
\* mask = xr.where(ref_ds.landmask > 0, nan, 1)
MaskOf(lm) == [c \in DOMAIN lm |-> IF lm[c] > 0 THEN NaN ELSE One]

\* ------------------------------------------- observational baseline
\* Flag threshold of the observations, 2.51, and minimum count, 20.
ObsFlagAbove == Rat(251, 100)
MinCount == 20

\* obs_da.where(obs_da <= 2.51, other=nan)
FlagObs(s) == [t \in 1..Len(s) |-> IF RLe(s[t], ObsFlagAbove) THEN s[t] ELSE NaN]

\* obs_da.where(obs_da > 0).count('tdim')
CountPositive(s) ==
    LET pos == [t \in 1..Len(s) |-> IF RGt(s[t], Zero) THEN s[t] ELSE NaN]
    IN CountValid(1..Len(s), pos)

\* Mutant of MinCountOf: a count of exactly 20 is kept.
MinCountOfStrict(count) == IF count < MinCount THEN NaN ELSE One

\* xr.where(count <= 20, nan, 1)
MinCountOf(count) == IF count <= MinCount THEN NaN ELSE One

\* obs_da * mincount
ScaleSeries(s, k) == [t \in 1..Len(s) |-> RMul(s[t], k)]

\* obs_da after flagging and the count mask, for one cell.
ObsQC(s) ==
    LET flagged == FlagObs(s)
    IN ScaleSeries(flagged, MinCountOf(CountPositive(flagged)))

\* o_mean = obs_da.mean(dim='tdim')
TemporalMean(s) == MeanSkipNa(1..Len(s), s)

\* Cell 3b, the variations: each line, once uncommented, keeps the values of
\* one range and sets the others to not-a-number.
LowIce == Rat(15, 100)

HighIce == Rat(80, 100)

RangeFilters == {"L15", "ZERO", "I015", "I1580", "I80100"}

KeptBy(f, x) ==
    IF f = "L15" THEN RGt(x, LowIce)
    ELSE IF f = "ZERO" THEN x = Zero
    ELSE IF f = "I015" THEN RGt(x, Zero) /\ RLe(x, LowIce)
    ELSE IF f = "I1580" THEN RGt(x, LowIce) /\ RLe(x, HighIce)
    ELSE RGt(x, HighIce) /\ RLe(x, One)

\* obs_da.where(<range>, other=float('nan'))
RangeFilter(f, s) == [t \in 1..Len(s) |-> IF KeptBy(f, s[t]) THEN s[t] ELSE NaN]

\* ------------------------------------------------------------ metric engine
\* Mutant of ErrSq: the difference itself, not its square.
ErrNotSquared(o, m) == [t \in 1..Len(o) |-> RSub(o[t], m[t])]

\* Mutant of ErrSq: the sum of the two series squared, not the difference.
ErrSqOfSum(o, m) == [t \in 1..Len(o) |-> RSquare(RAdd(o[t], m[t]))]

\* (obs_da - model_da) ** 2 for one cell: a not-a-number on either side
\* gives a not-a-number term.
ErrSq(o, m) == [t \in 1..Len(o) |-> RSquare(RSub(o[t], m[t]))]

\* Mutant of DevSq: the deviation from zero, not from the mean.
DevSqFromZero(o, mean) == [t \in 1..Len(o) |-> RSquare(o[t])]

\* (obs_da - o_mean) ** 2 for one cell.
DevSq(o, mean) == [t \in 1..Len(o) |-> RSquare(RSub(o[t], mean))]

\* Mutant of MEFRatio: the ratio without the complement to 1.
MEFRatioNoComplement(num, den) == RDiv(num, den)

\* 1 - (MEF_num / MEF_den)
MEFRatio(num, den) == RSub(One, RDiv(num, den))

\* .sum(dim='tdim') of one cell's terms.
SumTime(terms) == SumSkipNa(1..Len(terms), terms)

\* Mutant of MonthGroup: months counted from 0, so that no step is in group 12.
MonthGroupZeroBased(time, m) == {t \in 1..Len(time) : time[t] % 12 = m}

\* groupby('time.month') / groupby('time.season'): the positions of one group.
MonthGroup(time, m) == {t \in 1..Len(time) : MonthOf(time[t]) = m}

SeasonGroup(time, s) == {t \in 1..Len(time) : SeasonOf(time[t]) = s}

\* The group labels that occur on the time axis.
MonthsPresent(time) == {MonthOf(time[t]) : t \in 1..Len(time)}

SeasonsPresent(time) == {SeasonOf(time[t]) : t \in 1..Len(time)}

\* Numerator and denominator totals of the per-cell aggregations.
NumAnnual(o, m) == SumTime(ErrSq(o, m))

DenAnnual(o, mean) == SumTime(DevSq(o, mean))

NumMonthly(time, o, m, g) == SumSkipNa(MonthGroup(time, g), ErrSq(o, m))

DenMonthly(time, o, mean, g) == SumSkipNa(MonthGroup(time, g), DevSq(o, mean))

NumSeasonal(time, o, m, g) == SumSkipNa(SeasonGroup(time, g), ErrSq(o, m))

DenSeasonal(time, o, mean, g) == SumSkipNa(SeasonGroup(time, g), DevSq(o, mean))

\* The cells of a binary operation between two fields: xarray aligns the
\* operands on the labels they share.
Shared(a, b) == DOMAIN a \cap DOMAIN b

\* .sum(dim=['x','y']) at one time step.
NumBinned(obs, mod, t) ==
    SumSkipNa(Shared(obs, mod), [c \in Shared(obs, mod) |-> ErrSq(obs[c], mod[c])[t]])

DenBinned(obs, mean, t) ==
    SumSkipNa(DOMAIN obs, [c \in DOMAIN obs |-> DevSq(obs[c], mean[c])[t]])

\* MEF - ANNUAL
MEFAnnual(obs, mod, mean) ==
    [c \in Shared(obs, mod) |-> MEFRatio(NumAnnual(obs[c], mod[c]), DenAnnual(obs[c], mean[c]))]

\* MEF - MONTHLY
MEFMonthly(time, obs, mod, mean) ==
    [g \in MonthsPresent(time) |->
        [c \in Shared(obs, mod) |-> MEFRatio(NumMonthly(time, obs[c], mod[c], g),
                                       DenMonthly(time, obs[c], mean[c], g))]]

\* MEF - SEASONAL
MEFSeasonal(time, obs, mod, mean) ==
    [g \in SeasonsPresent(time) |->
        [c \in Shared(obs, mod) |-> MEFRatio(NumSeasonal(time, obs[c], mod[c], g),
                                       DenSeasonal(time, obs[c], mean[c], g))]]

\* MEF - BINNED
MEFBinned(time, obs, mod, mean) ==
    [t \in 1..Len(time) |-> MEFRatio(NumBinned(obs, mod, t), DenBinned(obs, mean, t))]

\* dataset = xr.Dataset({'MEF_a': ..., 'MEF_s': ..., 'MEF_m': ..., 'MEF_b': ...,
\*                       'model_name': model})
MetricSet(time, obs, mod, mean, name) ==
    [MEF_a |-> MEFAnnual(obs, mod, mean),
     MEF_s |-> MEFSeasonal(time, obs, mod, mean),
     MEF_m |-> MEFMonthly(time, obs, mod, mean),
     MEF_b |-> MEFBinned(time, obs, mod, mean),
     model_name |-> name]

\* --------------------------------------------------------- model normaliser
\* Flag threshold of the models, 100 (percent), and the percent scale.
ModelFlagAbove == Rat(100, 1)
PercentScale == Rat(100, 1)

\* model_ds['siconc'].where(model_ds['siconc'] <= 100, other=nan)
FlagModel(s) == [t \in 1..Len(s) |-> IF RLe(s[t], ModelFlagAbove) THEN s[t] ELSE NaN]

\* The source cell whose value the regridder's weights give to target cell c.
\* The regridder is an external collaborator: its weights are taken as one
\* co-located source cell per target cell, so a flagged source value is a
\* not-a-number target value.
SrcCell(c) == c

\* ds_tgt = subset_bbox(ref_ds, lon_bnds=[-180, 180], lat_bnds=[-80, -50]):
\* the cells of the reference grid that the box keeps.
SubsetBBox(ref) == {c \in Cells : ref.inbox[c]}

\* reg_bil(model_ds.siconc): the field on the target grid ds_tgt, time axis
\* kept.
Regrid(ds, tgt) == [time |-> ds.time, v |-> [c \in tgt |-> ds.v[SrcCell(c)]]]

\* model_rp.siconc[i,:,:] * mask is xarray arithmetic between labelled
\* arrays.  Where y and x are index coordinates of both operands the product
\* is taken over the labels they share (the default inner join); where they
\* are bare dimensions, operands of different sizes are refused.
OverlayOk(ds, msk, indexed) == indexed \/ DOMAIN ds.v = DOMAIN msk

\* model_rp.siconc[i,:,:] = model_rp.siconc[i,:,:] * mask, for i in range(tct)
OverlayMask(ds, msk) ==
    [time |-> ds.time,
     v |-> [c \in DOMAIN ds.v \cap DOMAIN msk |->
              [i \in 1..Len(ds.time) |-> RMul(ds.v[c][i], msk[c])]]]

\* Mutant of RelabelOk: the labels are assigned whatever the lengths.
RelabelAlways(ds, obsTime) == TRUE

\* assign_coords(time=obs_ds['time']) followed by the two swap_dims: the
\* observation's time variable (on dimension tdim) becomes the index of the
\* model's time dimension.  xarray refuses a dataset whose variables disagree
\* on the size of a dimension (ValueError: conflicting sizes), so the relabel
\* succeeds exactly when the two lengths agree.
RelabelOk(ds, obsTime) == Len(ds.time) = Len(obsTime)

Relabel(ds, obsTime) == [time |-> obsTime, v |-> ds.v]

\* model_ds.siconc / 100
Rescale(ds) ==
    [time |-> ds.time,
     v |-> [c \in DOMAIN ds.v |-> [i \in 1..Len(ds.v[c]) |-> RDiv(ds.v[c][i], PercentScale)]]]

\* Slice, flag, regrid and mask: the model on the target grid, before relabel.
Reproject(raw, msk, tgt) ==
    LET sliced == SelTime(raw, WinStart, WinEnd)
        flagged == [time |-> sliced.time,
                    v |-> [c \in DOMAIN sliced.v |-> FlagModel(sliced.v[c])]]
    IN OverlayMask(Regrid(flagged, tgt), msk)

\* ------------------------------------------------------------- discovery
\* mods, and the institution under which the catalog files each model.
ModsFull ==
    <<"CMCC-CM2-HR4", "CMCC-CM2-VHR4", "HadGEM3-GC31-HM",
      "HadGEM3-GC31-LL", "HadGEM3-GC31-MM", "GFDL-CM4C192">>

mods == SubSeq(ModsFull, 1, NModels)

Institution(name) ==
    IF name \in {"CMCC-CM2-HR4", "CMCC-CM2-VHR4"} THEN "CMCC"
    ELSE IF name = "GFDL-CM4C192" THEN "NOAA-GFDL"
    ELSE "MOHC"

\* A key of ddict, 'activity_id.institution_id.source_id.experiment_id.
\* table_id.grid_label', held as the sequence of its dot-separated fields.
KeyOf(name) == <<"HighResMIP", Institution(name), name, "hist-1950", "SImon", "gn">>

\* mlist[k].split('.')[2]
ModIdOf(key) == key[3]

Range(f) == {f[i] : i \in DOMAIN f}

\* The sequences without repetition over S.
DistinctSeqs(S) ==
    {q \in UNION {[1..n -> S] : n \in 0..Cardinality(S)} :
        \A a, b \in DOMAIN q : a # b => q[a] # q[b]}

\* ---------------------------------------------------------------- inputs
\* A series of length len for p = <<hi, lo, k, fill>>: hi and lo alternating
\* over the first k positions, then fill; a value x stands for x / unit.
AltSeries(p, len, unit) ==
    [t \in 1..len |->
        IF t <= p[3] THEN (IF t % 2 = 1 THEN Rat(p[1], unit) ELSE Rat(p[2], unit))
        ELSE Rat(p[4], unit)]

\* Observed concentration as a fraction: <<hi, lo, k, fill>> in hundredths.
\* 255 stands for a flag value (2.55 > 2.51).
ObsParams ==
    {<<20, 40, NT, 0>>, <<20, 40, MinCount + 1, 0>>, <<20, 40, MinCount, 0>>,
     <<30, 30, NT, 0>>, <<20, 40, MinCount + 1, 255>>}

\* Model concentration in percent; 120 stands for a flagged value (> 100).
ModelParams == {<<20, 40, NT, 0>>, <<30, 30, NT, 0>>, <<40, 20, MinCount + 1, 120>>}

\* The observational file: the window and one month on either side of it.
RawObs(f) ==
    [time |-> [i \in 1..(NT + 2) |-> WinStart - 2 + i],
     v |-> [c \in Cells |-> <<One>> \o AltSeries(f[c], NT, 100) \o <<One>>]]

RawObsSet == {RawObs(f) : f \in [Cells -> ObsParams]}

\* A model's store: it starts one month before the window and ends short
\* months before the window's end.
RawModel(f, short) ==
    [time |-> [i \in 1..(NT + 1 - short) |-> WinStart - 2 + i],
     v |-> [c \in Cells |-> <<Rat(50, 1)>> \o AltSeries(f[c], NT - short, 1)]]

\* The fields a store may hold: one pattern on every cell, or two patterns on
\* alternating cells.
ModelFields ==
    {[c \in Cells |-> p] : p \in ModelParams}
        \cup {[c \in Cells |-> IF c % 2 = 1 THEN <<20, 40, NT, 0>>
                                ELSE <<40, 20, MinCount + 1, 120>>]}

RawModelSet ==
    {RawModel(f, 0) : f \in ModelFields}
        \cup {RawModel([c \in Cells |-> <<20, 40, NT, 0>>], 1)}

LandmaskSet == [Cells -> {0, 2}]

\* The reference grid as the box sees it: which cells lie within latitude
\* -80..-50, and whether y and x are index coordinates of the mask and of the
\* regridded field.  RefGridsCovered are the grids that lie within the box.
RefGridsCovered == {[inbox |-> [c \in Cells |-> TRUE], indexed |-> TRUE]}

RefGrids ==
    RefGridsCovered \cup
    {[inbox |-> b, indexed |-> x] :
        b \in {f \in [Cells -> BOOLEAN] : (\E c \in Cells : f[c]) /\ (\E c \in Cells : ~f[c])},
        x \in BOOLEAN}

\* ------------------------------------------------------------------ state
VARIABLES
    pc,           \* position in the notebook
    ref_ds,       \* ref_ds: the grid of the ancillary file
    landmask,     \* ref_ds.landmask
    mask,         \* mask
    obs_ds,       \* obs_ds after the time slice
    obs_da,       \* obs_da
    o_mean,       \* o_mean
    ddict,        \* ddict: key -> the model's dataset
    mlist,        \* mlist
    source_id,    \* source_id
    j,            \* loop index, counted from 1
    model,        \* model: the name given to the current dataset
    model_da,     \* model_da of the current iteration
    MEF,          \* MEF: the list of per-model datasets
    combined_ds,  \* combined_ds
    exported      \* what to_netcdf has written

vars ==
    <<pc, ref_ds, landmask, mask, obs_ds, obs_da, o_mean, ddict, mlist, source_id, j,
      model, model_da, MEF, combined_ds, exported>>

EmptyDs == [time |-> <<>>, v |-> <<>>]

EmptyRef == [inbox |-> <<>>, indexed |-> FALSE]

lct == Len(mlist)

Init ==
    /\ pc = "mask"
    /\ ref_ds = EmptyRef
    /\ landmask = <<>>
    /\ mask = <<>>
    /\ obs_ds = EmptyDs
    /\ obs_da = <<>>
    /\ o_mean = <<>>
    /\ ddict = <<>>
    /\ mlist = <<>>
    /\ source_id = <<>>
    /\ j = 0
    /\ model = ""
    /\ model_da = EmptyDs
    /\ MEF = <<>>
    /\ combined_ds = <<>>
    /\ exported = <<>>

\* Notebook cell 2: the reference grid is opened and its land mask built.
LoadMaskOf(grids) ==
    /\ pc = "mask"
    /\ \E g \in grids : ref_ds' = g
    /\ \E lm \in LandmaskSet :
        /\ landmask' = lm
        /\ mask' = MaskOf(lm)
    /\ pc' = "obs"
    /\ UNCHANGED <<obs_ds, obs_da, o_mean, ddict, mlist, source_id, j, model,
                   model_da, MEF, combined_ds, exported>>

\* The notebook on a reference grid that lies within the box: the compiled
\* dataset of the recorded run has the y and x sizes of the whole grid.
LoadMask == LoadMaskOf(RefGridsCovered)

\* Notebook cell 3: slice, flag, count mask and temporal mean of the
\* observations.
ObservationBaseline ==
    /\ pc = "obs"
    /\ \E raw \in RawObsSet :
        LET sliced == SelTime(raw, WinStart, WinEnd)
            qc == [c \in DOMAIN sliced.v |-> ObsQC(sliced.v[c])]
        IN /\ obs_ds' = sliced
           /\ obs_da' = qc
           /\ o_mean' = [c \in DOMAIN qc |-> TemporalMean(qc[c])]
    /\ pc' = "search"
    /\ UNCHANGED <<ref_ds, landmask, mask, ddict, mlist, source_id, j, model, model_da,
                   MEF, combined_ds, exported>>

\* Notebook cells 6-8: the catalog search for mods, to_dataset_dict and
\* mlist = list(ddict.keys()).  The dictionary is filled as the stores are
\* opened, so its key order is any order of the models that were found.
DiscoverFrom(at) ==
    /\ pc = at
    /\ \E found \in DistinctSeqs(Range(mods)) :
        \E data \in [Range(found) -> RawModelSet] :
            /\ mlist' = [k \in DOMAIN found |-> KeyOf(found[k])]
            /\ ddict' = [key \in {KeyOf(n) : n \in Range(found)} |-> data[ModIdOf(key)]]
    /\ pc' = "names"
    /\ UNCHANGED <<ref_ds, landmask, mask, obs_ds, obs_da, o_mean, source_id, j, model,
                   model_da, MEF, combined_ds, exported>>

Discover == DiscoverFrom("search")

\* source_id = [mlist[k].split('.')[2] for k]; MEF = []
BuildSourceId ==
    /\ pc = "names"
    /\ source_id' = [k \in 1..lct |-> ModIdOf(mlist[k])]
    /\ MEF' = <<>>
    /\ j' = 1
    /\ pc' = IF lct = 0 THEN "concat" ELSE "normalize"
    /\ UNCHANGED <<ref_ds, landmask, mask, obs_ds, obs_da, o_mean, ddict, mlist, model,
                   model_da, combined_ds, exported>>

\* Mutant of NameOfIteration: every dataset is given the first name.
NameOfFirst(ids, k) == ids[1]

\* The name the j-th iteration gives its dataset: model = source_id[j].
NameOfIteration(ids, k) == ids[k]

\* The store the j-th iteration reads: ddict[mlist[j]].
SourceOfIteration(dd, keys, k) == dd[keys[k]]

\* Mutant of Uncaught: the error is swallowed and the run goes on to compile
\* whatever the list holds.
CaughtAndCompiled == "concat"

\* No cell of the notebook has a try/except: an exception raised in the loop
\* or by xr.concat stops the cell, and a run of the notebook stops at the
\* first cell that raises.
Uncaught == "failed"

\* Mutant of Normalize: the overlay loop writes the masked product into the
\* observations as well.
NormalizeOverlayingObs ==
    /\ pc = "normalize"
    /\ LET ds_tgt == SubsetBBox(ref_ds)
           model_rp == Reproject(SourceOfIteration(ddict, mlist, j), mask, ds_tgt)
       IN IF OverlayOk(model_rp, mask, ref_ds.indexed) /\ RelabelOk(model_rp, obs_ds.time)
          THEN /\ model_da' = Rescale(Relabel(model_rp, obs_ds.time))
               /\ pc' = "metrics"
          ELSE /\ model_da' = EmptyDs
               /\ pc' = Uncaught
    /\ model' = NameOfIteration(source_id, j)
    /\ obs_da' = [c \in DOMAIN obs_da |-> ScaleSeries(obs_da[c], mask[c])]
    /\ UNCHANGED <<ref_ds, landmask, mask, obs_ds, o_mean, ddict, mlist,
                   source_id, j, MEF, combined_ds, exported>>

\* Loop body up to model_da: the j-th model is sliced, flagged, regridded,
\* masked, relabelled and rescaled.  An overlay or a relabel that xarray
\* refuses ends the run.
Normalize ==
    /\ pc = "normalize"
    /\ LET ds_tgt == SubsetBBox(ref_ds)
           model_rp == Reproject(SourceOfIteration(ddict, mlist, j), mask, ds_tgt)
       IN IF OverlayOk(model_rp, mask, ref_ds.indexed) /\ RelabelOk(model_rp, obs_ds.time)
          THEN /\ model_da' = Rescale(Relabel(model_rp, obs_ds.time))
               /\ pc' = "metrics"
          ELSE /\ model_da' = EmptyDs
               /\ pc' = Uncaught
    /\ model' = NameOfIteration(source_id, j)
    /\ UNCHANGED <<ref_ds, landmask, mask, obs_ds, obs_da, o_mean, ddict, mlist,
                   source_id, j, MEF, combined_ds, exported>>

\* Mutant of NextIndex: the loop steps over every other entry of the list.
NextIndexSkipping(k) == k + 2

\* for j in range(0, lct, 1): the index that follows k.
NextIndex(k) == k + 1

\* Loop body from MEF - ANNUAL to MEF.append(dataset).
ComputeMetrics ==
    /\ pc = "metrics"
    /\ MEF' = Append(MEF, MetricSet(model_da.time, obs_da, model_da.v, o_mean, model))
    /\ j' = NextIndex(j)
    /\ pc' = IF NextIndex(j) > lct THEN "concat" ELSE "normalize"
    /\ UNCHANGED <<ref_ds, landmask, mask, obs_ds, obs_da, o_mean, ddict, mlist,
                   source_id, model, model_da, combined_ds, exported>>

\* xr.concat(MEF, dim='models'): an empty list is refused.
Concat ==
    /\ pc = "concat"
    /\ IF MEF = <<>>
       THEN /\ combined_ds' = combined_ds
            /\ pc' = Uncaught
       ELSE /\ combined_ds' = MEF
            /\ pc' = "export"
    /\ UNCHANGED <<ref_ds, landmask, mask, obs_ds, obs_da, o_mean, ddict, mlist,
                   source_id, j, model, model_da, MEF, exported>>

\* Notebook cell 10: combined_ds.to_netcdf(...)
Export ==
    /\ pc = "export"
    /\ exported' = combined_ds
    /\ pc' = "done"
    /\ UNCHANGED <<ref_ds, landmask, mask, obs_ds, obs_da, o_mean, ddict, mlist,
                   source_id, j, model, model_da, MEF, combined_ds>>

Next ==
    \/ LoadMask
    \/ ObservationBaseline
    \/ Discover
    \/ BuildSourceId
    \/ Normalize
    \/ ComputeMetrics
    \/ Concat
    \/ Export

Spec == Init /\ [][Next]_vars

\* ------------------------------------------ the notebook with a variation
\* Cell 3b with one of its lines uncommented: it runs after cell 3, where
\* o_mean was taken, and assigns obs_da only.
VariationCell ==
    /\ pc = "search"
    /\ \E f \in RangeFilters :
        obs_da' = [c \in DOMAIN obs_da |-> RangeFilter(f, obs_da[c])]
    /\ pc' = "varied"
    /\ UNCHANGED <<ref_ds, landmask, mask, obs_ds, o_mean, ddict, mlist, source_id, j,
                   model, model_da, MEF, combined_ds, exported>>

DiscoverAfterVariation == DiscoverFrom("varied")

NextVariation ==
    \/ LoadMask
    \/ ObservationBaseline
    \/ VariationCell
    \/ DiscoverAfterVariation
    \/ BuildSourceId
    \/ Normalize
    \/ ComputeMetrics
    \/ Concat
    \/ Export

SpecVariation == Init /\ [][NextVariation]_vars

\* --------------------------- the notebook on a grid that exceeds the box
LoadMaskBBox == LoadMaskOf(RefGrids)

NextBBox ==
    \/ LoadMaskBBox
    \/ ObservationBaseline
    \/ Discover
    \/ BuildSourceId
    \/ Normalize
    \/ ComputeMetrics
    \/ Concat
    \/ Export

SpecBBox == Init /\ [][NextBBox]_vars

\* ------------------------------------------- the metric engine on its own
\* The engine as a function of (obs_da, model_da): a single-cell grid and
\* short series over the values of the worked scenario, in hundredths.
ScenarioObs == <<10, 20, 30, 40>>

ScenarioModel == <<40, 30, 20, 10>>

ScenarioLen == Len(ScenarioObs)

Hundredths(q) == [t \in DOMAIN q |-> Rat(q[t], 100)]

\* The series over the scenario's values that never rise or never fall.
ScenarioSeries ==
    {q \in [1..ScenarioLen -> Range(ScenarioObs)] :
        \/ \A t \in 1..(ScenarioLen - 1) : q[t] <= q[t + 1]
        \/ \A t \in 1..(ScenarioLen - 1) : q[t] >= q[t + 1]}

InitEngine ==
    /\ pc = "engine_mean"
    /\ ref_ds = EmptyRef
    /\ landmask = <<>>
    /\ mask = <<>>
    /\ obs_ds = EmptyDs
    /\ \E q \in ScenarioSeries : obs_da = <<Hundredths(q)>>
    /\ o_mean = <<>>
    /\ ddict = <<>>
    /\ mlist = <<>>
    /\ source_id = <<>>
    /\ j = 0
    /\ model = ""
    /\ \E q \in ScenarioSeries :
        model_da = [time |-> [i \in 1..ScenarioLen |-> WinStart - 1 + i],
                    v |-> <<Hundredths(q)>>]
    /\ MEF = <<>>
    /\ combined_ds = <<>>
    /\ exported = <<>>

\* o_mean = obs_da.mean(dim='tdim')
EngineMean ==
    /\ pc = "engine_mean"
    /\ o_mean' = [c \in DOMAIN obs_da |-> TemporalMean(obs_da[c])]
    /\ pc' = "engine_metrics"
    /\ UNCHANGED <<ref_ds, landmask, mask, obs_ds, obs_da, ddict, mlist, source_id, j,
                   model, model_da, MEF, combined_ds, exported>>

\* MEF - ANNUAL to MEF.append(dataset), on the given series.
EngineMetrics ==
    /\ pc = "engine_metrics"
    /\ MEF' = Append(MEF, MetricSet(model_da.time, obs_da, model_da.v, o_mean, model))
    /\ pc' = "engine_done"
    /\ UNCHANGED <<ref_ds, landmask, mask, obs_ds, obs_da, o_mean, ddict, mlist,
                   source_id, j, model, model_da, combined_ds, exported>>

NextEngine ==
    \/ EngineMean
    \/ EngineMetrics

SpecEngine == InitEngine /\ [][NextEngine]_vars

\* ------------------------------------------------------------------ claims
\* One cell's series back in whole hundredths.
InHundredths(srs) == [t \in DOMAIN srs |-> (srs[t][1] * 100) \div srs[t][2]]

RECURSIVE IntSum(_, _)
IntSum(S, f) ==
    IF S = {} THEN 0
    ELSE LET i == CHOOSE x \in S : TRUE IN f[i] + IntSum(S \ {i}, f)

\* 1 - num/den worked out in whole numbers for a series without gaps:
\* with n steps, N = sum (o-m)^2, S = sum o, Q = sum o^2 (hundredths), the
\* denominator is (n*Q - S*S)/n and the ratio is n*N / (n*Q - S*S).
ClosedFormMEF(o, m) ==
    LET T == DOMAIN o
        n == Cardinality(T)
        N == IntSum(T, [t \in T |-> (o[t] - m[t]) * (o[t] - m[t])])
        S == IntSum(T, o)
        Q == IntSum(T, [t \in T |-> o[t] * o[t]])
        D == n * Q - S * S
    IN IF D = 0 THEN (IF N = 0 THEN NaN ELSE NegInf)
       ELSE Rat(D - n * N, D)

InScenario ==
    /\ pc = "engine_done"
    /\ obs_da[1] = Hundredths(ScenarioObs)
    /\ model_da.v[1] = Hundredths(ScenarioModel)

\* C1: for every cell the annual metric is 1 - sum (obs-model)^2 over
\* sum (obs-obsmean)^2 with obsmean the temporal mean of obs; on the single
\* cell with obs = [0.1, 0.2, 0.3, 0.4] and model = [0.4, 0.3, 0.2, 0.1] the
\* numerator is 0.20, obsmean 0.25, the denominator 0.05 and MEF_a = -3.
C1_AnnualFormula ==
    pc = "engine_done" =>
        /\ \A c \in DOMAIN obs_da :
            MEF[1].MEF_a[c] =
                ClosedFormMEF(InHundredths(obs_da[c]), InHundredths(model_da.v[c]))
        /\ InScenario =>
            /\ NumAnnual(obs_da[1], model_da.v[1]) = Rat(20, 100)
            /\ o_mean[1] = Rat(25, 100)
            /\ DenAnnual(obs_da[1], o_mean[1]) = Rat(5, 100)
            /\ MEF[1].MEF_a[1] = Rat(-3, 1)

C1_Witness == InScenario /\ MEF[1].MEF_a[1] = Rat(-3, 1)

\* The newest entry of MEF, and the states in which model_da is still the
\* series it was computed from.
LastSet == MEF[Len(MEF)]

JustComputed == Len(MEF) >= 1 /\ pc \in {"normalize", "concat", "export", "done"}

TimeSteps == 1..Len(obs_ds.time)

ModelEqualsObs == \A c \in Cells : \A t \in TimeSteps : model_da.v[c][t] = obs_da[c][t]

\* C2: when the normalised model equals the observations at every cell and
\* time step, MEF_a, each seasonal and each monthly value is exactly 1 at
\* every cell whose denominator of that group is not zero.
C2_Identity ==
    (JustComputed /\ ModelEqualsObs) =>
        \A c \in Cells :
            /\ DenAnnual(obs_da[c], o_mean[c]) # Zero => LastSet.MEF_a[c] = One
            /\ \A g \in Seasons :
                DenSeasonal(obs_ds.time, obs_da[c], o_mean[c], g) # Zero
                    => LastSet.MEF_s[g][c] = One
            /\ \A g \in Months :
                DenMonthly(obs_ds.time, obs_da[c], o_mean[c], g) # Zero
                    => LastSet.MEF_m[g][c] = One

C2_Witness ==
    /\ JustComputed
    /\ ModelEqualsObs
    /\ \E c \in Cells :
        /\ LastSet.MEF_a[c] = One
        /\ \A g \in Seasons : LastSet.MEF_s[g][c] = One
        /\ \A g \in Months : LastSet.MEF_m[g][c] = One

ModelEqualsMean == \A c \in Cells : \A t \in TimeSteps : model_da.v[c][t] = o_mean[c]

ZeroOrNaN(v) == v = Zero \/ IsNaN(v)

\* C3: when the normalised model equals the temporal mean of the
\* observations at every time step, every value of the annual, seasonal,
\* monthly and binned metric is 0 wherever it is a number.
C3_MeanModel ==
    (JustComputed /\ ModelEqualsMean) =>
        /\ \A c \in Cells :
            /\ ZeroOrNaN(LastSet.MEF_a[c])
            /\ \A g \in Seasons : ZeroOrNaN(LastSet.MEF_s[g][c])
            /\ \A g \in Months : ZeroOrNaN(LastSet.MEF_m[g][c])
        /\ \A t \in TimeSteps : ZeroOrNaN(LastSet.MEF_b[t])

C3_Witness ==
    /\ JustComputed
    /\ ModelEqualsMean
    /\ \E c \in Cells :
        /\ LastSet.MEF_a[c] = Zero
        /\ \E g \in Seasons : LastSet.MEF_s[g][c] = Zero
        /\ \E g \in Months : LastSet.MEF_m[g][c] = Zero
    /\ \E t \in TimeSteps : LastSet.MEF_b[t] = Zero

\* C4: a cell that is not-a-number in the land mask is not-a-number in
\* MEF_a, in every seasonal and monthly group, and adds no term to the
\* binned sums, whatever the observations and the model hold there.
C4_MaskPropagation ==
    JustComputed =>
        \A c \in Cells :
            IsNaN(mask[c]) =>
                /\ IsNaN(LastSet.MEF_a[c])
                /\ \A g \in Seasons : IsNaN(LastSet.MEF_s[g][c])
                /\ \A g \in Months : IsNaN(LastSet.MEF_m[g][c])
                /\ \A t \in TimeSteps :
                    /\ IsNaN(ErrSq(obs_da[c], model_da.v[c])[t])
                    /\ IsNaN(DevSq(obs_da[c], o_mean[c])[t])

\* The valid months of a cell of the sliced observations: above 0 and not
\* above 2.51, counted on the values as read.
ValidMonths(c) ==
    Cardinality({t \in TimeSteps :
        LET x == obs_ds.v[c][t]
        IN x[2] > 0 /\ x[1] > 0 /\ 100 * x[1] <= 251 * x[2]})

BaselineBuilt == pc \notin {"mask", "obs", "engine_mean", "engine_metrics", "engine_done"}

GroupSize(S) == Cardinality(S)

IndexInMods(name) == CHOOSE i \in DOMAIN mods : mods[i] = name

\* C7: the models along the model axis of the compiled dataset follow the
\* order of mods, whatever order discovery returned them in.
C7_OrderOfMods ==
    pc = "done" =>
        \A a, b \in DOMAIN exported :
            a < b => IndexInMods(exported[a].model_name) < IndexInMods(exported[b].model_name)

\* The dataset the notebook is to produce from the k-th key of mlist.
ExpectedSet(k) ==
    LET key == mlist[k]
        da == Rescale(Relabel(Reproject(ddict[key], mask, SubsetBBox(ref_ds)), obs_ds.time))
    IN MetricSet(obs_ds.time, obs_da, da.v, o_mean, key[3])

\* C8: after a run over all models the compiled dataset is the sequence of
\* appended datasets: as long as the list of models, slice k holding the
\* four metrics of the k-th processed model's data under that model's name.
C8_CompiledInOrder ==
    pc = "done" =>
        /\ exported = MEF
        /\ Len(exported) = Len(mlist)
        /\ \A k \in DOMAIN exported : exported[k] = ExpectedSet(k)

C8_Witness ==
    /\ pc = "done"
    /\ Len(exported) = NModels
    /\ \A a, b \in DOMAIN exported :
        a # b => /\ exported[a].model_name # exported[b].model_name
                 /\ exported[a].MEF_a # exported[b].MEF_a

\* C9: in each aggregation a denominator of exactly zero gives a
\* not-a-number, whatever the numerator; never an infinity.
C9_ZeroDenominator ==
    JustComputed =>
        /\ \A c \in Cells :
            /\ DenAnnual(obs_da[c], o_mean[c]) = Zero => IsNaN(LastSet.MEF_a[c])
            /\ \A g \in Seasons :
                DenSeasonal(obs_ds.time, obs_da[c], o_mean[c], g) = Zero
                    => IsNaN(LastSet.MEF_s[g][c])
            /\ \A g \in Months :
                DenMonthly(obs_ds.time, obs_da[c], o_mean[c], g) = Zero
                    => IsNaN(LastSet.MEF_m[g][c])
        /\ \A t \in TimeSteps :
            DenBinned(obs_da, o_mean, t) = Zero => IsNaN(LastSet.MEF_b[t])

\* Length of the k-th model's series once sliced to the window.
SlicedLen(k) == Len(SelTime(ddict[mlist[k]], WinStart, WinEnd).time)

\* C10: a model whose sliced series differs in length from the observations
\* fails in normalisation and gives no dataset; metrics are computed only on
\* a series of the observations' length, whole and under their time labels.
C10_TimeAlignment ==
    /\ pc = "metrics" =>
        /\ SlicedLen(j) = Len(obs_ds.time)
        /\ model_da.time = obs_ds.time
        /\ \A c \in Cells : Len(model_da.v[c]) = Len(obs_da[c])
    /\ \A k \in 1..Len(MEF) :
        /\ SlicedLen(k) = Len(obs_ds.time)
        /\ Len(MEF[k].MEF_b) = Len(obs_ds.time)
    /\ (pc \in {"normalize", "metrics", "failed"} /\ j <= Len(mlist)) =>
        \A k \in 1..(j - 1) : SlicedLen(k) = Len(obs_ds.time)

C10_Witness ==
    /\ pc = "failed"
    /\ j = NModels
    /\ SlicedLen(j) # Len(obs_ds.time)
    /\ Len(MEF) = j - 1

\* ---------------------------------------------------------------- C11
\* C11: a model whose processing fails ends the run.  In the failed state the
\* list holds exactly the models before the failing one, nothing is compiled
\* and nothing is exported, and no step follows (no later model, no retry);
\* a compiled or exported result holds every discovered model.
FailedAt == pc = "failed"

C11_AbortOnFirstFailure ==
    /\ [](FailedAt => /\ combined_ds = <<>>
                      /\ exported = <<>>
                      /\ Len(MEF) = j - 1)
    /\ [](pc \in {"export", "done"} => /\ lct >= 1
                                      /\ Len(MEF) = lct
                                      /\ combined_ds = MEF)
    /\ [](exported # <<>> => pc = "done" /\ exported = MEF /\ Len(MEF) = lct)
    /\ [][FailedAt => UNCHANGED vars]_vars

\* The second of two models fails after the first was appended: the run has
\* stopped with one set in the list and nothing compiled.
C11_Witness ==
    /\ FailedAt
    /\ lct = 2
    /\ j = 2
    /\ Len(MEF) = 1
    /\ SlicedLen(2) # Len(obs_ds.time)
    /\ exported = <<>>

\* ---------------------------------------------------------------- C12
\* C12: the land mask, the observation series and its temporal mean are built
\* before the first model is processed, no step after that changes them, and
\* the mean is the mean of the observations alone, whatever the models hold.
SharedBaseline == <<ref_ds, landmask, mask, obs_ds, obs_da, o_mean>>

MeanOfObsOnly ==
    \A c \in Cells : o_mean[c] = TemporalMean(ObsQC(obs_ds.v[c]))

C12_BaselineReadOnly ==
    /\ [](pc \in {"normalize", "metrics"} =>
            /\ mask = MaskOf(landmask)
            /\ DOMAIN obs_da = Cells
            /\ MeanOfObsOnly)
    /\ [][BaselineBuilt => UNCHANGED SharedBaseline]_vars

\* Two models were processed over a grid with a land cell and an ocean cell
\* whose observations have a mean, and the run has ended.
C12_Witness ==
    /\ pc = "done"
    /\ Len(MEF) = 2
    /\ \E c \in Cells : IsNaN(mask[c]) /\ IsFinite(o_mean[c])
    /\ \E c \in Cells : ~IsNaN(mask[c]) /\ IsFinite(o_mean[c])
    /\ MeanOfObsOnly

\* ---------------------------------------------------------------- C13
\* C13: when a range filter is applied, the mean that enters the
\* denominators is the temporal mean of the filtered observations: at every
\* metric computation o_mean is the mean of obs_da as it then stands.
C13_MeanAfterFilter ==
    pc = "metrics" => \A c \in DOMAIN obs_da : o_mean[c] = TemporalMean(obs_da[c])

\* ---------------------------------------------------------------- C14
\* C14: the models are processed one at a time in the order of the list.
\* While model j is being processed the list holds the sets of models
\* 1..j-1, in that order; a step of model j leaves the index alone until its
\* set is appended, and appending moves to the next index, so no model is
\* started before its predecessor is appended and none is processed twice.
InLoop == pc \in {"normalize", "metrics"}

AppendedInListOrder ==
    /\ Len(MEF) = j - 1
    /\ \A k \in 1..Len(MEF) : MEF[k].model_name = source_id[k]
    /\ \A k, l \in 1..Len(MEF) : MEF[k].model_name = MEF[l].model_name => k = l

C14_Sequential ==
    /\ [](InLoop => j \in 1..lct /\ AppendedInListOrder)
    /\ [](pc \in {"concat", "export", "done"} => j = lct + 1 /\ AppendedInListOrder)
    /\ [][/\ pc = "normalize" => j' = j /\ MEF' = MEF
          /\ pc = "metrics" => /\ j' = j + 1
                               /\ Len(MEF') = j
                               /\ SubSeq(MEF', 1, j - 1) = MEF
                               /\ MEF'[j].model_name = source_id[j]]_vars

\* The first model's set is appended and the second model is about to start.
C14_Witness ==
    /\ pc = "normalize"
    /\ lct = 2
    /\ j = 2
    /\ Len(MEF) = 1
    /\ MEF[1].model_name = source_id[1]
    /\ source_id[1] # source_id[2]

\* ---------------------------------------------------------------- C15
\* C15: when the grid of the regridded series (the box subset) differs from
\* the reference grid of the mask, normalisation fails: no model reaches the
\* metric computation and no set is appended.
TargetDiffers == pc # "mask" /\ SubsetBBox(ref_ds) # Cells

C15_ShapeMismatchFatal ==
    TargetDiffers => pc # "metrics" /\ MEF = <<>>

\* ---------------------------------------------------------------- C16
\* C16: in each of the four aggregations, a value that is a number and whose
\* denominator is positive is at most 1, and is 1 only when its numerator
\* sum is zero.
AtMostOne(num, den, val) ==
    (RGt(den, Zero) /\ ~IsNaN(val)) =>
        /\ RLe(val, One)
        /\ val = One => num = Zero

C16_UpperBound ==
    JustComputed =>
        LET time == model_da.time
            mod == model_da.v
        IN /\ \A c \in Cells :
                AtMostOne(NumAnnual(obs_da[c], mod[c]),
                          DenAnnual(obs_da[c], o_mean[c]), LastSet.MEF_a[c])
           /\ \A g \in Months : \A c \in Cells :
                AtMostOne(NumMonthly(time, obs_da[c], mod[c], g),
                          DenMonthly(time, obs_da[c], o_mean[c], g), LastSet.MEF_m[g][c])
           /\ \A g \in Seasons : \A c \in Cells :
                AtMostOne(NumSeasonal(time, obs_da[c], mod[c], g),
                          DenSeasonal(time, obs_da[c], o_mean[c], g), LastSet.MEF_s[g][c])
           /\ \A t \in TimeSteps :
                AtMostOne(NumBinned(obs_da, mod, t), DenBinned(obs_da, o_mean, t),
                          LastSet.MEF_b[t])

\* One cell's annual value is below 1 with a positive numerator, another
\* cell's is exactly 1 with a zero numerator, both over positive
\* denominators, and a map value is below 1.
C16_Witness ==
    /\ JustComputed
    /\ \E c \in Cells :
        /\ RGt(DenAnnual(obs_da[c], o_mean[c]), Zero)
        /\ RGt(NumAnnual(obs_da[c], model_da.v[c]), Zero)
        /\ RGt(One, LastSet.MEF_a[c])
    /\ \E c \in Cells :
        /\ RGt(DenAnnual(obs_da[c], o_mean[c]), Zero)
        /\ NumAnnual(obs_da[c], model_da.v[c]) = Zero
        /\ LastSet.MEF_a[c] = One
    /\ \E t \in TimeSteps :
        /\ RGt(DenBinned(obs_da, o_mean, t), Zero)
        /\ RGt(One, LastSet.MEF_b[t])

\* ---------------------------------------------------------------- C17
\* C17: the sums pass over not-a-number terms.  A numerator is the sum of the
\* squared errors of the steps (or cells) where both the model and the
\* observation are numbers, a denominator the sum of the squared deviations
\* where the observation is a number; so a cell where the model is
\* not-a-number at every step and the denominator is positive has annual
\* value 1.
ValidObs(o) == {t \in 1..Len(o) : ~IsNaN(o[t])}

ValidBoth(o, m) == {t \in 1..Len(o) : ~IsNaN(o[t]) /\ ~IsNaN(m[t])}

\* terms[1] + ... + terms[n], the terms outside keep counted as nothing.
RECURSIVE SumWhere(_, _, _)
SumWhere(terms, keep, n) ==
    IF n = 0 THEN Zero
    ELSE RAdd(SumWhere(terms, keep, n - 1), IF n \in keep THEN terms[n] ELSE Zero)

SqDiff(a, b) == RSquare(RSub(a, b))

C17_SumsSkipNaN ==
    JustComputed =>
        LET mod == model_da.v
        IN /\ \A c \in Cells :
                LET o == obs_da[c]
                    m == mod[c]
                    den == DenAnnual(o, o_mean[c])
                IN /\ NumAnnual(o, m) =
                        SumWhere([t \in 1..Len(o) |-> SqDiff(o[t], m[t])],
                                 ValidBoth(o, m), Len(o))
                   /\ den =
                        SumWhere([t \in 1..Len(o) |-> SqDiff(o[t], o_mean[c])],
                                 ValidObs(o), Len(o))
                   /\ ((\A t \in 1..Len(m) : IsNaN(m[t])) /\ RGt(den, Zero))
                        => LastSet.MEF_a[c] = One
           /\ \A t \in TimeSteps :
                /\ NumBinned(obs_da, mod, t) =
                     SumWhere([c \in Cells |-> SqDiff(obs_da[c][t], mod[c][t])],
                              {c \in Cells : t \in ValidBoth(obs_da[c], mod[c])}, NCells)
                /\ DenBinned(obs_da, o_mean, t) =
                     SumWhere([c \in Cells |-> SqDiff(obs_da[c][t], o_mean[c])],
                              {c \in Cells : t \in ValidObs(obs_da[c])}, NCells)

\* A land cell with observations that vary: the model is not-a-number at
\* every step there, the denominator is positive, and the annual value is 1.
\* At another cell the model is not-a-number at some steps only.
C17_Witness ==
    /\ JustComputed
    /\ \E c \in Cells :
        /\ IsNaN(mask[c])
        /\ \A t \in TimeSteps : IsNaN(model_da.v[c][t])
        /\ ValidObs(obs_da[c]) # {}
        /\ RGt(DenAnnual(obs_da[c], o_mean[c]), Zero)
        /\ LastSet.MEF_a[c] = One
    /\ \E c \in Cells :
        /\ ValidBoth(obs_da[c], model_da.v[c]) # {}
        /\ ValidBoth(obs_da[c], model_da.v[c]) # ValidObs(obs_da[c])

====
